---- MODULE Spec2Model ----
(***************************************************************************)
(* A model of the news crawler of src/crawling: the article store          *)
(* (storage.py), the name utilities (utils.py), the fetcher with its retry *)
(* policy and the traversal of scraper.py / main.py.                       *)
(*                                                                         *)
(* A text (a title, a directory name) is a sequence of characters; a       *)
(* character is a one-character string, or a two-character token for a     *)
(* letter outside ASCII: "i'" is i with acute, "i." is i with dot below,   *)
(* "dd" / "DD" are the barred d of Vietnamese.  Python's None and ''       *)
(* are both falsy wherever the store tests a subcategory; both are the     *)
(* empty sequence here.                                                    *)
(*                                                                         *)
(* Each part has a specification of its own: StoreSpec (save_article),     *)
(* FetchSpec (_make_request), ListingSpec (get_articles_from_page),        *)
(* ExtractSpec (get_article_content), MapperSpec (CategoryMapper),         *)
(* NormSpec (normalize_category_name) and CrawlSpec (a whole run).         *)
(***************************************************************************)
EXTENDS Integers, Sequences, FiniteSets, TLC

VARIABLES
    category_counters,  \* ArticleStorage.category_counters: counter key -> count
    files,              \* the output tree: file path -> what the file holds
    mappings,           \* CategoryMapper.mappings: normalized key -> names
    last,               \* the latest save_article call and what it returned
    indexed,            \* history: per (category, subcategory), calls that were given an index
    stored,             \* history: per (category, subcategory), calls that returned True
    saves,              \* history: the save_article calls made
    okWritten,          \* history: the paths written by calls that returned True
    dirsUsed,           \* history: per (category, subcategory), the directories resolved for it
    session,            \* history: the storages opened on base_dir, the keys the latest drew
    pc,                 \* where main() is: the handler that runs next
    exit_cause,         \* what made main() call sys.exit(1), "" while it has not
    categories,         \* main(): the categories selected from the home page
    cat_idx,            \* main(): the category being crawled
    listing,            \* crawl_category(): length of main_articles / sub_articles
    article_idx,        \* crawl_category(): the article being processed
    subcategories,      \* crawl_category(): number of subcategories selected
    sub_idx,            \* crawl_category(): the subcategory being crawled, 0 in the main part
    stats,              \* crawl_category(): stats of the current category
    total_stats,        \* main(): total_stats
    lastFetch,          \* the latest _make_request call and how it ended
    fetchLog,           \* history: how the _make_request calls of a session ended
    lastArt,            \* history: the latest article the loop handled
    listed,             \* history: the articles (and subcategories) the pages listed
    processed,          \* history: the articles (and subcategories) then taken up
    visited,            \* history: the categories crawl_category was called for
    lastListing,        \* history: the latest listing page and the records made of it
    clean,              \* history: no article of the current listing met a failure
    pause,              \* history: the time.sleep calls made since the latest fetch
    input,              \* a function on its own: the argument it is applied to
    output,             \* a function on its own: what it returned
    applied,            \* a function on its own: whether it has been applied
    mapping_file,       \* CategoryMapper.mapping_file: the rows of the CSV file
    lastMap,            \* the latest CategoryMapper call and what it returned
    given,              \* history: per original, the keys returned and what the table held
    firstPair,          \* history: per key, the names first recorded in this mapper
    mapperOps           \* history: the CategoryMapper calls made

storeVars ==
    <<category_counters, files, mappings, last, indexed, stored, saves, okWritten, dirsUsed,
      session>>

crawlVars ==
    <<pc, exit_cause, categories, cat_idx, listing, article_idx, subcategories, sub_idx,
      stats, total_stats, lastFetch, lastArt, listed, processed, visited, lastListing,
      clean, pause>>

fetchVars == <<fetchLog>>

pureVars == <<input, output, applied>>

mapperVars == <<mapping_file, lastMap, given, firstPair, mapperOps>>

vars == <<storeVars, crawlVars, fetchVars, pureVars, mapperVars>>

-----------------------------------------------------------------------------
(* Bounds of the model *)

\* save_article calls of one ArticleStorage instance
MaxSaves == 3

-----------------------------------------------------------------------------
(* config.py *)

ARTICLE_DIR == <<"article">>
METADATA_DIR == <<"metadata">>
CATEGORY_DIR == <<"category">>
SUB_CATEGORY_DIR == <<"sub-category">>

DEFAULT_MAX_CATEGORIES == 10

DEFAULT_MAX_SUBCATEGORIES == 5

DEFAULT_MAX_ARTICLES == 20

\* utils.py:155, sanitized[:100]
MaxFilenameLen == 100

-----------------------------------------------------------------------------
(* Texts *)

NoSub == << >>

Truthy(s) == Len(s) > 0

Min(a, b) == IF a < b THEN a ELSE b

\* str.strip(): the whitespace of the modelled alphabet is the blank
IsSpace(c) == c = " "

RECURSIVE LStrip(_)
LStrip(s) == IF s # << >> /\ IsSpace(Head(s)) THEN LStrip(Tail(s)) ELSE s

RECURSIVE RStrip(_)
RStrip(s) ==
    IF s # << >> /\ IsSpace(s[Len(s)]) THEN RStrip(SubSeq(s, 1, Len(s) - 1)) ELSE s

Strip(s) == RStrip(LStrip(s))

\* a slip that would replace pairs, as str.replace(c + c, c) does
RECURSIVE ReplacePairs(_, _)
ReplacePairs(s, c) ==
    IF Len(s) < 2 THEN s
    ELSE IF s[1] = c /\ s[2] = c THEN <<c>> \o ReplacePairs(SubSeq(s, 3, Len(s)), c)
    ELSE <<Head(s)>> \o ReplacePairs(Tail(s), c)

\* re.sub(c{2,}, c, s): every run of the character c becomes one c
RECURSIVE CollapseRuns(_, _)
CollapseRuns(s, c) ==
    IF Len(s) < 2 THEN s
    ELSE IF s[1] = c /\ s[2] = c THEN CollapseRuns(Tail(s), c)
    ELSE <<Head(s)>> \o CollapseRuns(Tail(s), c)

\* the characters of [\x00-\x1F\\/:*?"<>|] that the modelled alphabet has
ForbiddenInFilename == {"/", ":", "\\", "*", "?", "<", ">", "|"}

sanitize_filename(name) ==
    LET replaced == [i \in 1..Len(name) |->
                        IF name[i] \in ForbiddenInFilename THEN "_" ELSE name[i]]
        sanitized == CollapseRuns(Strip(replaced), "_")
    IN  SubSeq(sanitized, 1, Min(Len(sanitized), MaxFilenameLen))

\* str.lower() on the modelled alphabet
LowerChar(c) ==
    CASE c = "A" -> "a"
      [] c = "B" -> "b"
      [] c = "C" -> "c"
      [] c = "S" -> "s"
      [] c = "DD" -> "dd"
      [] c = "E" -> "e"
      [] c = "H" -> "h"
      [] c = "M" -> "m"
      [] c = "N" -> "n"
      [] c = "O" -> "o"
      [] c = "T" -> "t"
      [] c = "I" -> "i"
      [] c = "R" -> "r"
      [] c = "I'" -> "i'"
      [] c = "I." -> "i."
      [] OTHER -> c

\* NFD decomposition, the combining marks (category Mn) dropped, then the
\* barred d, which has no decomposition, replaced from vietnamese_map
remove_vietnamese_accents(text) ==
    [i \in 1..Len(text) |->
        CASE text[i] = "i'" -> "i"
          [] text[i] = "i." -> "i"
          [] text[i] = "I'" -> "I"
          [] text[i] = "I." -> "I"
          [] text[i] = "dd" -> "d"
          [] text[i] = "DD" -> "D"
          [] OTHER -> text[i]]

\* \w of a Python str pattern: letters, digits and the underscore
IsWordChar(c) ==
    c \in {"a", "b", "c", "d", "h", "i", "n", "r", "s", "t", "u",
           "A", "B", "C", "D", "S", "i'", "i.", "dd", "DD", "1", "2", "_",
           "e", "g", "k", "l", "m", "o", "x", "E", "H", "M", "N", "O", "T",
           "a'", "a?", "e^", "e^.", "o^", "I", "R", "I'", "I."}

normalize_category_name(name) ==
    IF ~Truthy(name) THEN name
    ELSE LET lowered == [i \in 1..Len(name) |-> LowerChar(name[i])]
             plain == remove_vietnamese_accents(lowered)
             spaced == [i \in 1..Len(plain) |->
                          IF IsWordChar(plain[i]) \/ IsSpace(plain[i])
                          THEN plain[i] ELSE " "]
             single == Strip(CollapseRuns(spaced, " "))
             joined == [i \in 1..Len(single) |->
                          IF single[i] = " " THEN "_" ELSE single[i]]
         IN  CollapseRuns(joined, "_")

-----------------------------------------------------------------------------
(* The titles the model hands to the store *)

\* 'Chinh tri' with its accents, the example of utils.py:52
ChinhTri == <<"C", "h", "i'", "n", "h", " ", "t", "r", "i.">>

\* 'A', 'A::b' and 'A/b'
CategoryTitles == { <<"A">>, <<"A", ":", ":", "b">>, <<"A", "/", "b">> }

SubcategoryTitles == { <<"b">> }

-----------------------------------------------------------------------------
(* utils.py: CategoryMapper *)

\* str.upper() on the modelled alphabet
UpperChar(c) ==
    CASE c = "a" -> "A"
      [] c = "b" -> "B"
      [] c = "c" -> "C"
      [] c = "h" -> "H"
      [] c = "i" -> "I"
      [] c = "n" -> "N"
      [] c = "r" -> "R"
      [] c = "t" -> "T"
      [] c = "i'" -> "I'"
      [] c = "i." -> "I."
      [] c = "dd" -> "DD"
      [] OTHER -> c

Upper(text) == [i \in 1..Len(text) |-> UpperChar(text[i])]

\* a slip that would record the original as its own display name
add_category_plain(table, original_name) ==
    LET normalized == normalize_category_name(original_name)
    IN  [key |-> normalized,
         table |-> (normalized :> [original_name |-> original_name,
                                   display_name |-> original_name]) @@ table]

\* add_category: the key it returns and the table it leaves
add_category(table, original_name) ==
    LET normalized == normalize_category_name(original_name)
        display_name == Upper(original_name)
    IN  [key |-> normalized,
         table |-> (normalized :> [original_name |-> original_name,
                                   display_name |-> display_name]) @@ table]

\* a slip that would hand out a fresh key when another original holds the key
get_normalized_name_fresh(table, original) ==
    LET normalized == normalize_category_name(original)
    IN  IF normalized \notin DOMAIN table THEN add_category(table, original)
        ELSE IF table[normalized].original_name = original
        THEN [key |-> normalized, table |-> table]
        ELSE [key |-> normalized \o <<"_", "2">>, table |-> table]

\* get_normalized_name: the key it returns and the table it leaves
get_normalized_name(table, original) ==
    LET normalized == normalize_category_name(original)
    IN  IF normalized \notin DOMAIN table
        THEN [key |-> normalized, table |-> add_category(table, original).table]
        ELSE [key |-> normalized, table |-> table]

get_display_name(table, normalized) ==
    IF normalized \in DOMAIN table THEN table[normalized].display_name
    ELSE Upper(normalized)

\* CategoryMapper calls of one run
MaxMapperOps == 4

\* 'A', 'a', 'Chinh tri' with and without its accents
Originals ==
    { <<"A">>, <<"a">>, ChinhTri, <<"C", "h", "i", "n", "h", " ", "t", "r", "i">> }

\* the keys get_display_name is asked for
AskedKeys == { <<"a">>, <<"c", "h", "i", "n", "h", "_", "t", "r", "i">> }

NoMapperCall ==
    [op |-> "none", arg |-> << >>, result |-> << >>, was_new |-> FALSE]

\* no CategoryMapper has been made
MapperIdle ==
    /\ mapping_file = << >>
    /\ lastMap = NoMapperCall
    /\ given = [o \in Originals |-> {}]
    /\ firstPair = << >>
    /\ mapperOps = 0

-----------------------------------------------------------------------------
(* storage.py: ArticleStorage *)

\* what save_article can meet on its way: no failure, or an exception raised
\* by create_directory, by open() or f.write() of the body file, by open()
\* or json.dump() of the metadata file
StorageFaults ==
    {"none", "mkdir", "open_article", "write_article", "open_metadata", "dump_metadata"}

get_counter_key(category, subcategory) ==
    IF Truthy(subcategory) THEN category \o <<":", ":">> \o subcategory
    ELSE category

\* the counters after _get_next_index(category, subcategory)
get_next_index(counters, category, subcategory) ==
    LET key == get_counter_key(category, subcategory)
        seeded == IF key \in DOMAIN counters THEN counters ELSE counters @@ (key :> 0)
    IN  [seeded EXCEPT ![key] = @ + 1]

\* category_counters.get(key, 0) for the key of a (category, subcategory)
CounterOf(counters, category, subcategory) ==
    LET key == get_counter_key(category, subcategory)
    IN  IF key \in DOMAIN counters THEN counters[key] ELSE 0

\* a slip that would send the files of a subcategory to its category's directory
base_path_flat(category, subcategory) ==
    <<sanitize_filename(category), CATEGORY_DIR>>

\* base_path of save_article, relative to base_dir
base_path(category, subcategory) ==
    LET category_clean == sanitize_filename(category)
    IN  IF Truthy(subcategory)
        THEN <<category_clean, SUB_CATEGORY_DIR, sanitize_filename(subcategory)>>
        ELSE <<category_clean, CATEGORY_DIR>>

article_filepath(base, index) == base \o <<ARTICLE_DIR, <<"article_", index, ".txt">>>>

\* a slip that would take a fresh index for the metadata file
metadata_filepath_next(base, index) ==
    base \o <<METADATA_DIR, <<"metadata_", index + 1, ".json">>>>

metadata_filepath(base, index) == base \o <<METADATA_DIR, <<"metadata_", index, ".json">>>>

\* the record json.dump writes; the title, the url and the dates of the
\* article do not steer the store and are kept as fixed values
metadata_full(index, category, subcategory) ==
    [index |-> index, category |-> category, subcategory |-> subcategory,
     title |-> "title", url |-> "url", date |-> "date", author |-> "author",
     source |-> "baochinhphu.vn", crawl_date |-> "now"]

\* a slip that would leave create_directory outside the try block
save_article_returns_leaky(fault) ==
    IF fault = "none" THEN "True" ELSE IF fault = "mkdir" THEN "raise" ELSE "False"

\* what the call gives its caller: the except clause turns every exception
\* into False
save_article_returns(fault) == IF fault = "none" THEN "True" ELSE "False"

\* the counters when save_article ends: _get_next_index runs after the
\* directories are made and before the first open()
CountersAfterSave(counters, category, subcategory, fault) ==
    IF fault = "mkdir" THEN counters
    ELSE get_next_index(counters, category, subcategory)

\* the files save_article writes before it ends: open(path, 'w') that
\* succeeds creates or truncates the file, a write that raises leaves it
\* incomplete
Writes(index, category, subcategory, fault) ==
    LET base == base_path(category, subcategory)
        body(done) ==
            article_filepath(base, index) :> [complete |-> done, data |-> "article_content"]
        meta(done) ==
            metadata_filepath(base, index) :>
                [complete |-> done,
                 data |-> metadata_full(index, category, subcategory)]
    IN  CASE fault \in {"mkdir", "open_article"} -> << >>
          [] fault = "write_article" -> body(FALSE)
          [] fault = "open_metadata" -> body(TRUE)
          [] fault = "dump_metadata" -> meta(FALSE) @@ body(TRUE)
          [] OTHER -> meta(TRUE) @@ body(TRUE)

Keys == CategoryTitles \X (SubcategoryTitles \cup {NoSub})

\* the first ArticleStorage of base_dir, before any index is drawn
FirstStorage == [opened |-> 1, drawn |-> {}]

NoCall ==
    [called |-> FALSE, category |-> << >>, subcategory |-> NoSub, fault |-> "none",
     index |-> 0, base |-> << >>, returned |-> "nothing", wrote |-> {},
     clobbered |-> FALSE]

\* one save_article(article_content, title, url, metadata, category, subcategory)
save_article(category, subcategory, fault) ==
    LET counters == CountersAfterSave(category_counters, category, subcategory, fault)
        index == IF fault = "mkdir" THEN 0
                 ELSE CounterOf(counters, category, subcategory)
        writes == Writes(index, category, subcategory, fault)
        returned == save_article_returns(fault)
    IN  /\ category_counters' = counters
        /\ files' = writes @@ files
        /\ last' = [called |-> TRUE, category |-> category, subcategory |-> subcategory,
                    fault |-> fault, index |-> index,
                    base |-> base_path(category, subcategory),
                    returned |-> returned, wrote |-> DOMAIN writes,
                    clobbered |-> (DOMAIN writes \cap okWritten # {})]
        /\ saves' = saves + 1
        /\ indexed' = IF fault = "mkdir" THEN indexed
                      ELSE [indexed EXCEPT ![<<category, subcategory>>] = @ + 1]
        /\ stored' = IF returned = "True"
                     THEN [stored EXCEPT ![<<category, subcategory>>] = @ + 1]
                     ELSE stored
        /\ okWritten' = IF returned = "True" THEN okWritten \cup DOMAIN writes
                        ELSE okWritten
        /\ dirsUsed' = [dirsUsed EXCEPT ![<<category, subcategory>>] =
                            @ \cup {base_path(category, subcategory)}]
        /\ session' = IF fault = "mkdir" THEN session
                      ELSE [session EXCEPT
                               !.drawn = @ \cup {get_counter_key(category, subcategory)}]
        /\ UNCHANGED mappings

NoArticle ==
    [id |-> <<0, 0, 0>>, of |-> 0, fetched |-> FALSE,
     page |-> [container |-> FALSE, paragraphs |-> << >>], content |-> << >>,
     metadata |-> << >>, saved |-> FALSE, fault |-> "none",
     returned |-> "nothing", counted |-> FALSE, propagated |-> FALSE,
     next |-> <<"", 0, 0, 0>>]

NoListing == [fetched |-> FALSE, page |-> << >>, records |-> << >>]

\* no function is being looked at on its own
PureIdle ==
    /\ input = << >>
    /\ output = << >>
    /\ applied = FALSE

NoFetch ==
    [failures |-> 0, status |-> "none", result |-> "none", attempts |-> 0, waits |-> 0,
     slept |-> 0]

\* the traversal at rest, for the specification of the store alone
CrawlIdle ==
    /\ pc = "idle"
    /\ exit_cause = ""
    /\ categories = << >>
    /\ cat_idx = 0
    /\ listing = 0
    /\ article_idx = 0
    /\ subcategories = 0
    /\ sub_idx = 0
    /\ stats = [subcategories |-> 0, articles |-> 0]
    /\ total_stats = [categories |-> 0, subcategories |-> 0, articles |-> 0]
    /\ lastFetch = NoFetch
    /\ lastArt = NoArticle
    /\ listed = {}
    /\ processed = {}
    /\ visited = {}
    /\ lastListing = NoListing
    /\ clean = TRUE
    /\ pause = << >>

-----------------------------------------------------------------------------
(* The store on its own: any sequence of save_article calls *)

StoreInit ==
    /\ category_counters = << >>
    /\ files = << >>
    /\ mappings = << >>
    /\ last = NoCall
    /\ saves = 0
    /\ indexed = [k \in Keys |-> 0]
    /\ stored = [k \in Keys |-> 0]
    /\ okWritten = {}
    /\ dirsUsed = [k \in Keys |-> {}]
    /\ session = FirstStorage
    /\ CrawlIdle
    /\ fetchLog = << >>
    /\ PureIdle
    /\ MapperIdle

Save ==
    /\ saves < MaxSaves
    /\ \E category \in CategoryTitles,
          subcategory \in SubcategoryTitles \cup {NoSub}, fault \in StorageFaults :
            save_article(category, subcategory, fault)
    /\ UNCHANGED <<crawlVars, fetchVars, pureVars, mapperVars>>

StoreNext == Save

StoreSpec == StoreInit /\ [][StoreNext]_vars

-----------------------------------------------------------------------------
(* The store over several runs: a new ArticleStorage on the same base_dir *)

\* ArticleStorage objects opened on one base_dir
MaxStorages == 2

\* a slip that would keep the counters of the storage before
init_counters_kept(previous) == previous

\* ArticleStorage.__init__: self.category_counters = {}, whatever the
\* storage before it had counted and whatever base_dir holds
init_counters(previous) == << >>

\* the 'articles' of get_stats: the files of the article directory of every
\* category and of every subcategory directory
get_stats_articles(disk) ==
    Cardinality({f \in DOMAIN disk :
        \/ Len(f) = 4 /\ f[2] = CATEGORY_DIR /\ f[3] = ARTICLE_DIR
        \/ Len(f) = 5 /\ f[2] = SUB_CATEGORY_DIR /\ f[4] = ARTICLE_DIR})

\* ArticleStorage(base_dir) once more: create_directory keeps what is there
NewStorage ==
    /\ session.opened < MaxStorages
    /\ category_counters' = init_counters(category_counters)
    /\ session' = [opened |-> session.opened + 1, drawn |-> {}]
    /\ UNCHANGED <<files, mappings, last, indexed, stored, saves, okWritten, dirsUsed,
                   crawlVars, fetchVars, pureVars, mapperVars>>

\* the runs save to one category and its subcategory
SaveAgain ==
    /\ saves < MaxSaves
    /\ \E subcategory \in SubcategoryTitles \cup {NoSub}, fault \in StorageFaults :
          save_article(<<"A">>, subcategory, fault)
    /\ UNCHANGED <<crawlVars, fetchVars, pureVars, mapperVars>>

RerunNext == SaveAgain \/ NewStorage

RerunSpec == StoreInit /\ [][RerunNext]_vars

-----------------------------------------------------------------------------
(* scraper.py: the fetcher *)

DELAY_BETWEEN_REQUESTS == 1

DELAY_BETWEEN_SUBCATEGORIES == 2

DELAY_BETWEEN_CATEGORIES == 3

MAX_RETRIES == 3

RETRY_DELAY == 5

\* a fetch is answered by `failures` attempts that end in a
\* requests.RequestException, and by a response from then on
MaxFailures == 3

\* _make_request calls of one session
MaxFetches == 4

\* a slip that would swallow the exception: the attempt returns None
make_request_once_swallow(answer) ==
    IF answer = "RequestException" THEN "None" ELSE "soup"

\* the body of _make_request, one attempt: the response parsed, or the
\* RequestException logged and raised again
make_request_once(answer) ==
    IF answer = "RequestException" THEN "raise" ELSE "soup"

\* the retry decorator around it: call again after a failed attempt, with a
\* sleep of RETRY_DELAY in between, until attempt MAX_RETRIES has failed
RECURSIVE retry(_, _, _)
retry(failures, attempt, waits) ==
    LET answer == IF attempt <= failures THEN "RequestException" ELSE "response"
        result == make_request_once(answer)
    IN  IF result # "raise"
        THEN [failures |-> failures, status |-> "returned", result |-> result,
              attempts |-> attempt, waits |-> waits, slept |-> waits * RETRY_DELAY]
        ELSE IF attempt < MAX_RETRIES
        THEN retry(failures, attempt + 1, waits + 1)
        ELSE [failures |-> failures, status |-> "raised", result |-> "raise",
              attempts |-> attempt, waits |-> waits, slept |-> waits * RETRY_DELAY]

make_request(failures) == retry(failures, 1, 0)

-----------------------------------------------------------------------------
(* The fetcher on its own: any sequence of _make_request calls *)

FetchInit ==
    /\ category_counters = << >>
    /\ files = << >>
    /\ mappings = << >>
    /\ last = NoCall
    /\ saves = 0
    /\ indexed = [k \in Keys |-> 0]
    /\ stored = [k \in Keys |-> 0]
    /\ okWritten = {}
    /\ dirsUsed = [k \in Keys |-> {}]
    /\ session = FirstStorage
    /\ CrawlIdle
    /\ fetchLog = << >>
    /\ PureIdle
    /\ MapperIdle

Fetch ==
    /\ Len(fetchLog) < MaxFetches
    /\ \E failures \in 0..MaxFailures :
          /\ lastFetch' = make_request(failures)
          /\ fetchLog' = Append(fetchLog, [status |-> lastFetch'.status,
                                           attempts |-> lastFetch'.attempts])
    /\ UNCHANGED <<storeVars, pc, exit_cause, categories, cat_idx, listing, article_idx,
                   subcategories, sub_idx, stats, total_stats, lastArt, listed,
                   processed, visited, lastListing, clean, pause, pureVars,
                   mapperVars>>

FetchNext == Fetch

FetchSpec == FetchInit /\ [][FetchNext]_vars

-----------------------------------------------------------------------------
(* utils.py and scraper.py: the article links of a listing page *)

\* config.py:11; an address is a sequence of parts: the site, "/", ".", a
\* name, the extension
URL == <<"https://baochinhphu.vn">>

\* str.startswith('http')
StartsWithHttp(link) == link # << >> /\ Head(link) \in {"https://baochinhphu.vn"}

\* re.sub(r'^\.+/', '', link): leading dots that a slash follows go, with the slash
RECURSIVE LeadingDots(_)
LeadingDots(link) ==
    IF link # << >> /\ Head(link) = "." THEN 1 + LeadingDots(Tail(link)) ELSE 0

StripDotsSlash(link) ==
    LET dots == LeadingDots(link)
    IN  IF dots >= 1 /\ Len(link) > dots /\ link[dots + 1] = "/"
        THEN SubSeq(link, dots + 2, Len(link))
        ELSE link

\* a slip that would put a slash before every relative link
normalize_url_slash(link, base_url) ==
    IF ~Truthy(link) THEN << >>
    ELSE IF StartsWithHttp(link) THEN link
    ELSE base_url \o <<"/">> \o StripDotsSlash(link)

\* << >> stands for None
normalize_url(link, base_url) ==
    IF ~Truthy(link) THEN << >>
    ELSE IF StartsWithHttp(link) THEN link
    ELSE LET rest == StripDotsSlash(link)
         IN  IF rest # << >> /\ Head(rest) = "/" THEN base_url \o rest
             ELSE base_url \o <<"/">> \o rest

\* href=re.compile(r'\.htm$')
EndsWithHtm(href) == href # << >> /\ href[Len(href)] = ".htm"

\* anchors of one listing page
MaxAnchors == 3

\* /a.htm, a.htm, ./a.htm, https://baochinhphu.vn/a.htm and /c
Hrefs ==
    { <<"/", "a", ".htm">>, <<"a", ".htm">>, <<".", "/", "a", ".htm">>,
      <<"https://baochinhphu.vn", "/", "a", ".htm">>, <<"/", "c">> }

\* an anchor of the page: where it stands (in an h2 or h3, or carrying one of
\* the title classes), its text and its href
Anchors ==
    [via : {"heading", "class"}, text : {<<" ">>, <<"T">>}, href : Hrefs]

RECURSIVE SeqsUpTo(_, _)
SeqsUpTo(S, n) ==
    IF n = 0 THEN {<< >>}
    ELSE LET shorter == SeqsUpTo(S, n - 1)
         IN  shorter \cup {Append(q, x) : q \in {r \in shorter : Len(r) = n - 1}, x \in S}

ListingPages == SeqsUpTo(Anchors, MaxAnchors)

\* a slip that would leave out the test of the title
RECURSIVE CollectUntitled(_, _, _)
CollectUntitled(anchors, seen_links, articles) ==
    IF anchors = << >> THEN articles
    ELSE LET link_tag == Head(anchors)
             full_link == normalize_url(link_tag.href, URL)
         IN  IF Truthy(link_tag.href) /\ full_link \notin seen_links
             THEN CollectUntitled(Tail(anchors), seen_links \cup {full_link},
                                  Append(articles, [title |-> Strip(link_tag.text),
                                                    link |-> full_link]))
             ELSE CollectUntitled(Tail(anchors), seen_links, articles)

\* one loop over the anchors a strategy finds: lines 122-136 and 145-157
RECURSIVE CollectArticles(_, _, _)
CollectArticles(anchors, seen_links, articles) ==
    IF anchors = << >> THEN articles
    ELSE LET link_tag == Head(anchors)
             title == Strip(link_tag.text)
             link == link_tag.href
             full_link == normalize_url(link, URL)
         IN  IF Truthy(title) /\ Truthy(link) /\ full_link \notin seen_links
             THEN CollectArticles(Tail(anchors), seen_links \cup {full_link},
                                  Append(articles, [title |-> title, link |-> full_link]))
             ELSE CollectArticles(Tail(anchors), seen_links, articles)

Links(articles) == {articles[i].link : i \in 1..Len(articles)}

\* the anchors of the page a strategy finds, in page order
FoundBy(page, via) == SelectSeq(page, LAMBDA a : a.via = via /\ EndsWithHtm(a.href))

\* the list get_articles_from_page returns for a page that was fetched
get_articles_from_page(page, max_articles) ==
    LET first == CollectArticles(FoundBy(page, "heading"), {}, << >>)
        articles == IF first # << >> THEN first
                    ELSE CollectArticles(FoundBy(page, "class"), Links(first), first)
    IN  IF max_articles # 0
        THEN SubSeq(articles, 1, Min(Len(articles), max_articles))
        ELSE articles

\* nothing stored, no run under way, no fetch made
AtRest ==
    /\ category_counters = << >>
    /\ files = << >>
    /\ mappings = << >>
    /\ last = NoCall
    /\ saves = 0
    /\ indexed = [k \in Keys |-> 0]
    /\ stored = [k \in Keys |-> 0]
    /\ okWritten = {}
    /\ dirsUsed = [k \in Keys |-> {}]
    /\ session = FirstStorage
    /\ CrawlIdle
    /\ fetchLog = << >>
    /\ MapperIdle

ListingInit ==
    /\ AtRest
    /\ input \in ListingPages
    /\ output = << >>
    /\ applied = FALSE

GetArticlesFromPage ==
    /\ ~applied
    /\ \E max_articles \in {1, DEFAULT_MAX_ARTICLES} :
          output' = get_articles_from_page(input, max_articles)
    /\ applied' = TRUE
    /\ UNCHANGED <<storeVars, crawlVars, fetchVars, input, mapperVars>>

ListingNext == GetArticlesFromPage

ListingSpec == ListingInit /\ [][ListingNext]_vars

-----------------------------------------------------------------------------
(* scraper.py: the subcategories in the breadcrumb of a category page *)

\* breadcrumb items of one category page
MaxCrumbs == 3

\* the address of the category whose page is read, as get_main_categories
\* made it: absolute
CategoryUrl == URL \o <<"/", "c", ".htm">>

\* /, the site itself, the category and a subcategory, each as a path and
\* as an absolute address
CrumbHrefs ==
    { <<"/">>, URL, <<"/", "c", ".htm">>, CategoryUrl,
      <<"/", "s", ".htm">>, URL \o <<"/", "s", ".htm">> }

\* the anchor of a breadcrumb item: its text and its href
Crumbs == [text : {<<" ">>, <<"T">>}, href : CrumbHrefs]

\* a category page: no div.list__breadcrumb, one without a <ul>, or one
\* with the items of its <ul>
BreadcrumbPages ==
    {[breadcrumb |-> "absent", items |-> << >>], [breadcrumb |-> "no_ul", items |-> << >>]}
        \cup {[breadcrumb |-> "ul", items |-> q] : q \in SeqsUpTo(Crumbs, MaxCrumbs)}

\* the for loop of lines 87-103
RECURSIVE CollectSubcategories(_, _, _)
CollectSubcategories(items, category_url, subs) ==
    IF items = << >> THEN subs
    ELSE LET sub_anchor == Head(items)
             sub_title == Strip(sub_anchor.text)
             sub_link == sub_anchor.href
             full_link == normalize_url(sub_link, URL)
         IN  IF /\ Truthy(sub_title)
                /\ Truthy(sub_link)
                /\ sub_link \notin {<<"/">>, category_url}
                /\ full_link \notin Links(subs)
             THEN CollectSubcategories(Tail(items), category_url,
                      Append(subs, [title |-> sub_title, link |-> full_link]))
             ELSE CollectSubcategories(Tail(items), category_url, subs)

\* the list get_subcategories_from_category returns for a page that was fetched
get_subcategories_from_category(page, category_url) ==
    IF page.breadcrumb # "ul" THEN << >>
    ELSE CollectSubcategories(page.items, category_url, << >>)

BreadcrumbInit ==
    /\ AtRest
    /\ input \in BreadcrumbPages
    /\ output = << >>
    /\ applied = FALSE

GetSubcategoriesFromCategory ==
    /\ ~applied
    /\ output' = get_subcategories_from_category(input, CategoryUrl)
    /\ applied' = TRUE
    /\ UNCHANGED <<storeVars, crawlVars, fetchVars, input, mapperVars>>

BreadcrumbNext == GetSubcategoriesFromCategory

BreadcrumbSpec == BreadcrumbInit /\ [][BreadcrumbNext]_vars

-----------------------------------------------------------------------------
(* scraper.py: the content of an article page *)

\* needle in haystack, for two str
Contains(haystack, needle) ==
    \E i \in 1..(Len(haystack) - Len(needle) + 1) :
        SubSeq(haystack, i, i + Len(needle) - 1) = needle

Lower(text) == [i \in 1..Len(text) |-> LowerChar(text[i])]

\* scraper.py:189; "o^" is o with circumflex and grave, "a?" a with hook,
\* "e^" e with circumflex, "e^." e with circumflex and dot below
invalid_keywords ==
    { <<"n", "g", "u", "o^", "n">>,
      <<"t", "h", "e", "o">>,
      <<"t", "h", "a", "m", " ", "k", "h", "a?", "o">>,
      <<"x", "e", "m", " ", "t", "h", "e^", "m">>,
      <<"l", "i", "e^", "n", " ", "h", "e^.">> }

\* scraper.py:191, len(author_text) < 50
MaxAuthorLen == 50

\* a slip that would look for the author in the first element
extract_author_from_first(paragraphs) ==
    IF paragraphs = << >> THEN [author |-> << >>, paragraphs |-> paragraphs]
    ELSE LET first_p == paragraphs[1]
             author_text == IF first_p.bold # << >> THEN Strip(first_p.bold[1]) ELSE << >>
         IN  IF /\ Truthy(author_text)
                /\ Len(author_text) < MaxAuthorLen
                /\ \A keyword \in invalid_keywords : ~Contains(Lower(author_text), keyword)
             THEN [author |-> author_text, paragraphs |-> Tail(paragraphs)]
             ELSE [author |-> << >>, paragraphs |-> paragraphs]

\* _extract_author_from_paragraphs: (author, paragraphs without the author);
\* an element is its text and the texts of its <b> tags, << >> is None
extract_author_from_paragraphs(paragraphs) ==
    IF paragraphs = << >> THEN [author |-> << >>, paragraphs |-> paragraphs]
    ELSE LET last_p == paragraphs[Len(paragraphs)]
             author_text == IF last_p.bold # << >> THEN Strip(last_p.bold[1]) ELSE << >>
         IN  IF /\ Truthy(author_text)
                /\ Len(author_text) < MaxAuthorLen
                /\ \A keyword \in invalid_keywords : ~Contains(Lower(author_text), keyword)
             THEN [author |-> author_text,
                   paragraphs |-> SubSeq(paragraphs, 1, Len(paragraphs) - 1)]
             ELSE [author |-> << >>, paragraphs |-> paragraphs]

\* what get_article_content returns without a document, a content
\* container or an element in it: (None, {})
NoContent == [content |-> << >>, metadata |-> << >>]

\* a slip that would take the text of the whole page when the content
\* container is missing
article_content_of_page(page) ==
    [content |-> <<<<"p", "a", "g", "e">>>>,
     metadata |-> [date |-> "date", author |-> << >>, source |-> "baochinhphu.vn"]]

\* get_article_content for a page that was fetched; the content is the
\* sequence of the parts that '\n\n' joins, the date of the page does not
\* steer the crawl and is a fixed value
article_content(page) ==
    IF ~page.container \/ page.paragraphs = << >> THEN NoContent
    ELSE LET extracted == extract_author_from_paragraphs(page.paragraphs)
             texts == [i \in 1..Len(extracted.paragraphs) |->
                          Strip(extracted.paragraphs[i].text)]
             content_parts == SelectSeq(texts, Truthy)
         IN  [content |-> content_parts,
              metadata |-> [date |-> "date", author |-> extracted.author,
                            source |-> "baochinhphu.vn"]]

\* elements (p, h2, h3) in the content container of one article page
MaxParagraphs == 2

Repeat(c, n) == [i \in 1..n |-> c]

MinhAnh == <<"M", "i", "n", "h", " ", "A", "n", "h">>

\* 'Nguon: Bao' and 'THEO A' with their accents
NguonBao == <<"N", "g", "u", "o^", "n", ":", " ", "B", "a'", "o">>

TheoA == <<"T", "H", "E", "O", " ", "A">>

Plain(text) == [text |-> text, bold |-> << >>]

Bold(text) == [text |-> text, bold |-> <<text>>]

\* the elements an article page is made of: prose, a blank element, a bold
\* line (a name, an attribution, 49 and 50 letters), a name in bold inside
\* a sentence, an empty <b>
Elements ==
    { Plain(<<"a", "b", "c">>), Plain(<<" ">>),
      Bold(MinhAnh), Bold(NguonBao), Bold(TheoA),
      Bold(Repeat("x", MaxAuthorLen - 1)), Bold(Repeat("x", MaxAuthorLen)),
      [text |-> <<"b", "i", " ">> \o MinhAnh, bold |-> <<MinhAnh>>],
      [text |-> << >>, bold |-> << << >> >>] }

NoContainer == [container |-> FALSE, paragraphs |-> << >>]

ExtractPages ==
    {NoContainer} \cup
        {[container |-> TRUE, paragraphs |-> ps] : ps \in SeqsUpTo(Elements, MaxParagraphs)}

ExtractInit ==
    /\ AtRest
    /\ input \in ExtractPages
    /\ output = << >>
    /\ applied = FALSE

GetArticleContent ==
    /\ ~applied
    /\ output' = article_content(input)
    /\ applied' = TRUE
    /\ UNCHANGED <<storeVars, crawlVars, fetchVars, input, mapperVars>>

ExtractNext == GetArticleContent

ExtractSpec == ExtractInit /\ [][ExtractNext]_vars

-----------------------------------------------------------------------------
(* The mapper on its own: any sequence of CategoryMapper calls *)

MapperInit ==
    /\ AtRest
    /\ PureIdle

\* what the table holds for the key of an original when it is asked for
Situation(table, original) ==
    LET normalized == normalize_category_name(original)
    IN  IF normalized \notin DOMAIN table THEN "absent"
        ELSE IF table[normalized].original_name = original THEN "same"
        ELSE "other"

\* the names first recorded under each key of the table
FirstPairs(table) ==
    [k \in DOMAIN table \ DOMAIN firstPair |-> table[k]] @@ firstPair

MapperRest ==
    UNCHANGED <<category_counters, files, last, indexed, stored, saves, okWritten,
                dirsUsed, session, crawlVars, fetchVars, pureVars>>

\* CategoryMapper(): __init__ with load_mappings
NewMapper ==
    /\ mapperOps < MaxMapperOps
    /\ mappings' = mapping_file
    /\ firstPair' = mapping_file
    /\ lastMap' = [NoMapperCall EXCEPT !.op = "init"]
    /\ mapperOps' = mapperOps + 1
    /\ UNCHANGED <<mapping_file, given>>
    /\ MapperRest

AddCategory ==
    /\ mapperOps < MaxMapperOps
    /\ \E original \in Originals :
          LET r == add_category(mappings, original)
          IN  /\ mappings' = r.table
              /\ firstPair' = FirstPairs(r.table)
              /\ lastMap' = [op |-> "add_category", arg |-> original, result |-> r.key,
                             was_new |-> r.key \notin DOMAIN mappings]
    /\ mapperOps' = mapperOps + 1
    /\ UNCHANGED <<mapping_file, given>>
    /\ MapperRest

GetNormalizedName ==
    /\ mapperOps < MaxMapperOps
    /\ \E original \in Originals :
          LET r == get_normalized_name(mappings, original)
          IN  /\ mappings' = r.table
              /\ firstPair' = FirstPairs(r.table)
              /\ given' = [given EXCEPT ![original] =
                              @ \cup {<<Situation(mappings, original), r.key>>}]
              /\ lastMap' = [op |-> "get_normalized_name", arg |-> original,
                             result |-> r.key, was_new |-> r.key \notin DOMAIN mappings]
    /\ mapperOps' = mapperOps + 1
    /\ UNCHANGED mapping_file
    /\ MapperRest

GetDisplayName ==
    /\ mapperOps < MaxMapperOps
    /\ \E normalized \in AskedKeys :
          lastMap' = [op |-> "get_display_name", arg |-> normalized,
                      result |-> get_display_name(mappings, normalized),
                      was_new |-> FALSE]
    /\ mapperOps' = mapperOps + 1
    /\ UNCHANGED <<mappings, mapping_file, given, firstPair>>
    /\ MapperRest

\* save_mappings: open(..., 'w') empties the file, then the rows are written;
\* an exception is logged and the call returns
SaveMappings ==
    /\ mapperOps < MaxMapperOps
    /\ \E fault \in {"none", "open", "write"} :
          mapping_file' = CASE fault = "none" -> mappings
                            [] fault = "open" -> mapping_file
                            [] OTHER -> << >>
    /\ lastMap' = [NoMapperCall EXCEPT !.op = "save_mappings"]
    /\ mapperOps' = mapperOps + 1
    /\ UNCHANGED <<mappings, given, firstPair>>
    /\ MapperRest

MapperNext ==
    \/ NewMapper
    \/ AddCategory
    \/ GetNormalizedName
    \/ GetDisplayName
    \/ SaveMappings

MapperSpec == MapperInit /\ [][MapperNext]_vars

-----------------------------------------------------------------------------
(* normalize_category_name on its own *)

\* characters of a name
MaxNameLen == 3

\* letters of both cases, accented letters, a digit, the blank, the
\* underscore and a punctuation mark
NameChars == {"A", "b", "i'", "DD", "1", " ", "_", "/"}

Names == SeqsUpTo(NameChars, MaxNameLen)

NormInit ==
    /\ AtRest
    /\ input \in Names
    /\ output = << >>
    /\ applied = FALSE

\* normalize_category_name(name), and the same applied to what it returned
Normalize ==
    /\ ~applied
    /\ output' = [once |-> normalize_category_name(input),
                  twice |-> normalize_category_name(normalize_category_name(input))]
    /\ applied' = TRUE
    /\ UNCHANGED <<storeVars, crawlVars, fetchVars, input, mapperVars>>

NormNext == Normalize

NormSpec == NormInit /\ [][NormNext]_vars

-----------------------------------------------------------------------------
(* preprocessing/tfidf_summarizer.py: TfidfSummarizer.summarize *)

\* sentences of one document, and the largest num_sentences
MaxSentences == 3

\* a sentence score is the sum of a TF-IDF row; three levels stand for it
ScoreLevels == 0..2

\* np.argsort(sentence_scores): an order of the positions by ascending
\* score; which of two equal scores comes first is up to the sort
ArgSorts(scores) ==
    {order \in [1..Len(scores) -> 1..Len(scores)] :
        /\ \A i, j \in 1..Len(scores) : order[i] = order[j] => i = j
        /\ \A i \in 1..(Len(scores) - 1) : scores[order[i]] <= scores[order[i + 1]]}

\* a slip that would take the lowest scores: argsort(...)[:num_sentences]
bottom_indices(order, num_sentences) == {order[i] : i \in 1..num_sentences}

\* np.argsort(sentence_scores)[-num_sentences:], as positions from 1
top_indices(order, num_sentences) ==
    {order[i] : i \in (Len(order) - num_sentences + 1)..Len(order)}

\* sorted(top_indices)
RECURSIVE Sorted(_)
Sorted(S) ==
    IF S = {} THEN << >>
    ELSE LET least == CHOOSE x \in S : \A y \in S : x <= y
         IN  <<least>> \o Sorted(S \ {least})

\* summarize(sentences) of a summarizer with num_sentences = k, when the
\* vectorizer scored the sentences with `scores` and argsort gave `order`;
\* the indices it returns count from 0
summarize(sentences, k, scores, order) ==
    IF sentences = << >> THEN [summary |-> << >>, indices |-> << >>, scores |-> << >>]
    ELSE LET num_sentences == Min(k, Len(sentences))
         IN  IF Len(sentences) <= num_sentences
             THEN [summary |-> sentences,
                   indices |-> [i \in 1..Len(sentences) |-> i - 1],
                   scores |-> [i \in 1..Len(sentences) |-> 1]]
             ELSE LET ordered_indices == Sorted(top_indices(order, num_sentences))
                  IN  [summary |-> [i \in 1..Len(ordered_indices) |->
                                       sentences[ordered_indices[i]]],
                       indices |-> [i \in 1..Len(ordered_indices) |->
                                       ordered_indices[i] - 1],
                       scores |-> scores]

\* a document: its sentences (two of them may read the same), what the
\* vectorizer makes of each, and the num_sentences of the summarizer
Documents ==
    UNION {[sentences : [1..n -> {"x", "y"}], scores : [1..n -> ScoreLevels],
            k : 1..MaxSentences] : n \in 0..MaxSentences}

SummInit ==
    /\ AtRest
    /\ input \in Documents
    /\ output = << >>
    /\ applied = FALSE

Summarize ==
    /\ ~applied
    /\ \E order \in ArgSorts(input.scores) :
          output' = summarize(input.sentences, input.k, input.scores, order)
    /\ applied' = TRUE
    /\ UNCHANGED <<storeVars, crawlVars, fetchVars, input, mapperVars>>

SummNext == Summarize

SummSpec == SummInit /\ [][SummNext]_vars

-----------------------------------------------------------------------------
(* scraper.py and main.py: the traversal *)

\* categories on the home page's menu
MaxCats == 2

\* subcategories in the breadcrumbs of all the category pages together
MaxSubs == 1

\* article links on all the listing pages of the site together
MaxListed == 2

\* in the traversal a fetch succeeds at once or fails on every attempt; a
\* stored article meets no failure or one of each kind
CrawlFailures == {0, MAX_RETRIES}

CrawlFaults == {"none", "mkdir", "write_article", "dump_metadata"}

\* the titles of the home page's menu, in menu order
SiteMenu == << <<"A">>, <<"A", "/", "b">>, <<"A", ":", ":", "b">> >>

MenuTitle(i) == SiteMenu[((i - 1) % Len(SiteMenu)) + 1]

SubcategoryTitle(j) == <<"b">>

\* what the home page can look like: no div.header__menu, a menu without
\* a <ul>, or a menu of n items that pass the filter of line 59
HomePages ==
    {[menu |-> "absent", items |-> 0], [menu |-> "no_ul", items |-> 0]}
        \cup {[menu |-> "ul", items |-> n] : n \in 0..MaxCats}

\* an article is <<category, subcategory or 0, place in its listing>>, a
\* subcategory <<category, subcategory, 0>>
ArticlesListed == {x \in listed : x[3] > 0}

\* the article pages of the traversal: no content container, or a
\* container with prose
ArticlePages ==
    { NoContainer, [container |-> TRUE, paragraphs |-> <<Plain(<<"a", "b", "c">>)>>] }

\* the listing pages of the traversal: no anchor, one article after an
\* anchor without a title, two articles with such an anchor between them
ArticleAnchor(name) == [via |-> "heading", text |-> <<"T">>, href |-> <<"/", name, ".htm">>]

UntitledAnchor == [via |-> "heading", text |-> <<" ">>, href |-> <<"/", "u", ".htm">>]

TwoValidOneUntitled == <<ArticleAnchor("a"), UntitledAnchor, ArticleAnchor("b")>>

CrawlListings ==
    { << >>, <<UntitledAnchor, ArticleAnchor("a")>>, TwoValidOneUntitled }

\* get_main_categories(): the categories, or the exception it ends with
get_main_categories(fetch, page) ==
    IF fetch.status = "raised" THEN [raised |-> "RequestException", titles |-> << >>]
    ELSE IF fetch.result = "None" \/ page.menu = "absent"
    THEN [raised |-> "", titles |-> << >>]
    ELSE IF page.menu = "no_ul" THEN [raised |-> "AttributeError", titles |-> << >>]
    ELSE [raised |-> "", titles |-> [i \in 1..page.items |-> MenuTitle(i)]]

\* get_article_content(): (content, metadata)
get_article_content(fetch, page) ==
    IF fetch.result = "None" THEN NoContent ELSE article_content(page)

\* lst[:limit]
Truncate(n, limit) == Min(n, limit)

ZeroStats == [subcategories |-> 0, articles |-> 0]

\* the control state: the locals of main() and crawl_category()
Control(p, c, n, a, m, j, st, tot) ==
    [pc |-> p, cat_idx |-> c, listing |-> n, article_idx |-> a, subcategories |-> m,
     sub_idx |-> j, stats |-> st, total_stats |-> tot, slept |-> << >>]

\* time.sleep(delay), and then on to ctl
After(delay, ctl) == [ctl EXCEPT !.slept = <<delay>> \o @]

Goto(ctl) ==
    /\ pc' = ctl.pc
    /\ cat_idx' = ctl.cat_idx
    /\ listing' = ctl.listing
    /\ article_idx' = ctl.article_idx
    /\ subcategories' = ctl.subcategories
    /\ sub_idx' = ctl.sub_idx
    /\ stats' = ctl.stats
    /\ total_stats' = ctl.total_stats
    /\ pause' = ctl.slept

\* a slip that would take up the same category again
NextCategoryAgain(tot) == Control("crawl_category", cat_idx, 0, 0, 0, 0, ZeroStats, tot)

\* the for loop of main() goes to its next category, or ends
NextCategory(tot) ==
    IF cat_idx < Len(categories)
    THEN Control("crawl_category", cat_idx + 1, 0, 0, 0, 0, ZeroStats, tot)
    ELSE Control("finish", cat_idx, 0, 0, 0, 0, ZeroStats, tot)

\* main.py:103-115, crawl_category returned st
CategoryCompleted(st) ==
    After(DELAY_BETWEEN_CATEGORIES,
          NextCategory([categories |-> total_stats.categories + 1,
                        subcategories |-> total_stats.subcategories + st.subcategories,
                        articles |-> total_stats.articles + st.articles]))

\* main.py:110-113, crawl_category raised: continue
CategoryFailed == NextCategory(total_stats)

\* scraper.py:322-325, the subcategory is done; then the next one, or return stats
SubcategoryDone(st) ==
    After(DELAY_BETWEEN_SUBCATEGORIES,
          IF sub_idx < subcategories
          THEN Control("sub_listing", cat_idx, 0, 0, subcategories, sub_idx + 1, st,
                       total_stats)
          ELSE CategoryCompleted(st))

\* a slip that would count every subcategory that was listed
count_subcategory_always(st, sub_articles) == [st EXCEPT !.subcategories = @ + 1]

\* scraper.py:322-323, if sub_articles: stats['subcategories'] += 1
count_subcategory(st, sub_articles) ==
    IF sub_articles > 0 THEN [st EXCEPT !.subcategories = @ + 1] ELSE st

\* main_articles / sub_articles are locals of crawl_category: the listing
\* and what is known of it last until crawl_category returns or raises
ListingKept(current, flag) ==
    /\ lastListing' = IF pc' \in {"crawl_category", "finish"} THEN NoListing ELSE current
    /\ clean' = IF pc' \in {"crawl_category", "finish"} THEN TRUE ELSE flag

\* main.py:31-40
SetupLogging ==
    /\ pc = "setup_logging"
    /\ \E ok \in BOOLEAN :
          /\ pc' = IF ok THEN "init" ELSE "exit_1"
          /\ exit_cause' = IF ok THEN "" ELSE "logging"
    /\ UNCHANGED <<storeVars, categories, cat_idx, listing, article_idx, subcategories,
                   sub_idx, stats, total_stats, lastFetch, lastArt, listed, processed,
                   visited, lastListing, clean, pause, fetchVars, pureVars, mapperVars>>

\* main.py:69-72, with create_directory(base_dir) of ArticleStorage.__init__
InitStorage ==
    /\ pc = "init"
    /\ \E ok \in BOOLEAN :
          /\ pc' = IF ok THEN "get_main_categories" ELSE "exit_1"
          /\ exit_cause' = IF ok THEN "" ELSE "storage"
    /\ UNCHANGED <<storeVars, categories, cat_idx, listing, article_idx, subcategories,
                   sub_idx, stats, total_stats, lastFetch, lastArt, listed, processed,
                   visited, lastListing, clean, pause, fetchVars, pureVars, mapperVars>>

\* main.py:76-91 and 144-147, scraper.py:34-69
GetMainCategories ==
    /\ pc = "get_main_categories"
    /\ \E failures \in CrawlFailures, page \in HomePages :
          LET fetch == make_request(failures)
              got == get_main_categories(fetch, page)
              selected == SubSeq(got.titles, 1,
                                 Truncate(Len(got.titles), DEFAULT_MAX_CATEGORIES))
          IN  /\ lastFetch' = fetch
              /\ categories' = selected
              /\ exit_cause' = IF got.raised = "RequestException" THEN "home_fetch"
                               ELSE IF got.raised # "" THEN "home_extraction"
                               ELSE ""
              /\ pc' = IF got.raised # "" THEN "exit_1"
                       ELSE IF selected = << >> THEN "returned"
                       ELSE "crawl_category"
              /\ cat_idx' = IF got.raised = "" /\ selected # << >> THEN 1 ELSE 0
    /\ UNCHANGED <<storeVars, listing, article_idx, subcategories, sub_idx, stats,
                   total_stats, lastArt, listed, processed, visited, lastListing, clean, pause,
                   fetchVars, pureVars, mapperVars>>

\* main.py:93-101 and scraper.py:262-268: crawl_category begins and lists
\* the articles of the category page
ListMainArticles ==
    /\ pc = "crawl_category"
    /\ \E failures \in CrawlFailures, page \in CrawlListings :
          LET fetch == make_request(failures)
              fetched == fetch.status # "raised" /\ fetch.result # "None"
              records == IF fetched THEN get_articles_from_page(page, DEFAULT_MAX_ARTICLES)
                         ELSE << >>
              n == Len(records)
          IN  /\ n <= MaxListed - Cardinality(ArticlesListed)
              /\ lastFetch' = fetch
              /\ listed' = listed \cup {<<cat_idx, 0, k>> : k \in 1..n}
              /\ Goto(IF fetch.status = "raised" THEN CategoryFailed
                      ELSE IF n > 0
                      THEN Control("main_article", cat_idx, n, 1, 0, 0, ZeroStats,
                                   total_stats)
                      ELSE Control("get_subcategories", cat_idx, 0, 0, 0, 0, ZeroStats,
                                   total_stats))
              /\ ListingKept([fetched |-> fetched,
                              page |-> IF fetched THEN page ELSE << >>,
                              records |-> records], TRUE)
    /\ visited' = visited \cup {cat_idx}
    /\ UNCHANGED <<storeVars, exit_cause, categories, lastArt, processed, fetchVars,
                   pureVars, mapperVars>>

\* a slip that would store whatever the fetch gave
content_is_stored_always(content) == TRUE

\* scraper.py:277 and 309, if content:
content_is_stored(content) == Truthy(content)

\* scraper.py:273-288 and 305-320: one turn of an article loop
ArticleTurn(subcategory, failures, page, fault, whenListDone) ==
    LET fetch == make_request(failures)
        fetched == fetch.status # "raised"
        got == IF fetched THEN get_article_content(fetch, page) ELSE NoContent
        content == got.content
        saves_it == content_is_stored(content)
        returned == IF saves_it THEN save_article_returns(fault) ELSE "nothing"
        raised == fetch.status = "raised" \/ returned = "raise"
        st == IF returned = "True" THEN [stats EXCEPT !.articles = @ + 1] ELSE stats
        ctl == IF raised THEN CategoryFailed
               ELSE After(DELAY_BETWEEN_REQUESTS,
                          IF article_idx < listing
                          THEN Control(pc, cat_idx, listing, article_idx + 1, subcategories,
                                       sub_idx, st, total_stats)
                          ELSE whenListDone[st.articles])
    IN  /\ lastFetch' = fetch
        /\ processed' = processed \cup {<<cat_idx, sub_idx, article_idx>>}
        /\ IF saves_it THEN save_article(categories[cat_idx], subcategory, fault)
           ELSE UNCHANGED storeVars
        /\ Goto(ctl)
        /\ lastArt' = [id |-> <<cat_idx, sub_idx, article_idx>>, of |-> listing,
                       fetched |-> fetched,
                       page |-> IF fetched THEN page ELSE NoContainer,
                       content |-> content, metadata |-> got.metadata,
                       saved |-> saves_it,
                       fault |-> IF saves_it THEN fault ELSE "none",
                       returned |-> returned,
                       counted |-> (~raised /\ st.articles = stats.articles + 1),
                       propagated |-> raised,
                       next |-> <<ctl.pc, ctl.cat_idx, ctl.sub_idx, ctl.article_idx>>]
        /\ ListingKept(lastListing, clean /\ fetched /\ saves_it /\ fault = "none")
        /\ UNCHANGED <<exit_cause, categories, listed, visited, fetchVars, pureVars, mapperVars>>

\* scraper.py:270-288
MainArticle ==
    /\ pc = "main_article"
    /\ \E failures \in CrawlFailures, page \in ArticlePages, fault \in CrawlFaults :
          ArticleTurn(NoSub, failures, page, fault,
                      [a \in 0..stats.articles + 1 |->
                          Control("get_subcategories", cat_idx, 0, 0, 0, 0,
                                  [stats EXCEPT !.articles = a], total_stats)])

\* scraper.py:291-294
GetSubcategories ==
    /\ pc = "get_subcategories"
    /\ \E failures \in CrawlFailures,
          found \in 0..(MaxSubs - Cardinality(listed \ ArticlesListed)) :
          LET fetch == make_request(failures)
              m == IF fetch.result = "None" THEN 0
                   ELSE Truncate(found, DEFAULT_MAX_SUBCATEGORIES)
          IN  /\ lastFetch' = fetch
              /\ listed' = listed \cup
                    {<<cat_idx, j, 0>> : j \in 1..(IF fetch.status = "raised" THEN 0 ELSE m)}
              /\ Goto(IF fetch.status = "raised" THEN CategoryFailed
                      ELSE IF m > 0
                      THEN Control("sub_listing", cat_idx, 0, 0, m, 1, stats, total_stats)
                      ELSE CategoryCompleted(stats))
    /\ ListingKept(lastListing, clean)
    /\ UNCHANGED <<storeVars, exit_cause, categories, lastArt, processed, visited,
                   fetchVars, pureVars, mapperVars>>

\* scraper.py:297-300, and 322-325 when the subcategory lists nothing
ListSubArticles ==
    /\ pc = "sub_listing"
    /\ \E failures \in CrawlFailures, page \in CrawlListings :
          LET fetch == make_request(failures)
              fetched == fetch.status # "raised" /\ fetch.result # "None"
              records == IF fetched THEN get_articles_from_page(page, DEFAULT_MAX_ARTICLES)
                         ELSE << >>
              n == Len(records)
          IN  /\ n <= MaxListed - Cardinality(ArticlesListed)
              /\ lastFetch' = fetch
              /\ listed' = listed \cup {<<cat_idx, sub_idx, k>> : k \in 1..n}
              /\ processed' = processed \cup {<<cat_idx, sub_idx, 0>>}
              /\ Goto(IF fetch.status = "raised" THEN CategoryFailed
                      ELSE IF n > 0
                      THEN Control("sub_article", cat_idx, n, 1, subcategories, sub_idx,
                                   stats, total_stats)
                      ELSE SubcategoryDone(count_subcategory(stats, n)))
              /\ ListingKept([fetched |-> fetched,
                              page |-> IF fetched THEN page ELSE << >>,
                              records |-> records], TRUE)
    /\ UNCHANGED <<storeVars, exit_cause, categories, lastArt, visited, fetchVars,
                   pureVars, mapperVars>>

\* scraper.py:302-325
SubArticle ==
    /\ pc = "sub_article"
    /\ \E failures \in CrawlFailures, page \in ArticlePages, fault \in CrawlFaults :
          ArticleTurn(SubcategoryTitle(sub_idx), failures, page, fault,
                      [a \in 0..stats.articles + 1 |->
                          SubcategoryDone(
                              count_subcategory([stats EXCEPT !.articles = a], listing))])

\* main.py:117-142
Finish ==
    /\ pc = "finish"
    /\ pc' = "done"
    /\ UNCHANGED <<storeVars, exit_cause, categories, cat_idx, listing, article_idx,
                   subcategories, sub_idx, stats, total_stats, lastFetch, lastArt,
                   listed, processed, visited, lastListing, clean, pause, fetchVars, pureVars,
                   mapperVars>>

CrawlInit ==
    /\ category_counters = << >>
    /\ files = << >>
    /\ mappings = << >>
    /\ last = NoCall
    /\ saves = 0
    /\ indexed = [k \in Keys |-> 0]
    /\ stored = [k \in Keys |-> 0]
    /\ okWritten = {}
    /\ dirsUsed = [k \in Keys |-> {}]
    /\ session = FirstStorage
    /\ pc = "setup_logging"
    /\ exit_cause = ""
    /\ categories = << >>
    /\ cat_idx = 0
    /\ listing = 0
    /\ article_idx = 0
    /\ subcategories = 0
    /\ sub_idx = 0
    /\ stats = ZeroStats
    /\ total_stats = [categories |-> 0, subcategories |-> 0, articles |-> 0]
    /\ lastFetch = NoFetch
    /\ lastArt = NoArticle
    /\ listed = {}
    /\ processed = {}
    /\ visited = {}
    /\ lastListing = NoListing
    /\ clean = TRUE
    /\ pause = << >>
    /\ fetchLog = << >>
    /\ PureIdle
    /\ MapperIdle

CrawlNext ==
    \/ SetupLogging
    \/ InitStorage
    \/ GetMainCategories
    \/ ListMainArticles
    \/ MainArticle
    \/ GetSubcategories
    \/ ListSubArticles
    \/ SubArticle
    \/ Finish

CrawlSpec == CrawlInit /\ [][CrawlNext]_vars

\* main() is one thread and every call in it blocks until it returns or
\* raises (requests.get has a timeout, time.sleep ends): a run that can
\* take a step takes it
CrawlLive == CrawlSpec /\ WF_vars(CrawlNext)

-----------------------------------------------------------------------------
(* Claims about the store, checked under StoreSpec *)

LastKey == <<last.category, last.subcategory>>

\* C1: for every (category, subcategory) the k-th save that is given an
\* index is given index k, and the counter of a pair counts the saves of
\* that pair alone, whatever the titles are.
C1_PerKeyIndex ==
    /\ \A k \in Keys : CounterOf(category_counters, k[1], k[2]) = indexed[k]
    /\ (last.called /\ last.fault # "mkdir") => last.index = indexed[LastKey]

\* C2: the counter of every (category, subcategory) equals the number of
\* save_article calls for it that returned True.
C2_CounterCountsStored ==
    \A k \in Keys : CounterOf(category_counters, k[1], k[2]) = stored[k]

\* C3: when save_article returns True it has written article_<n>.txt and
\* metadata_<n>.json whole, under the same base path and with the same n,
\* and the metadata record's index is n.
C3_BothFilesSameIndex ==
    last.returned = "True" =>
        LET n == last.index
            ap == last.base \o <<ARTICLE_DIR, <<"article_", n, ".txt">>>>
            mp == last.base \o <<METADATA_DIR, <<"metadata_", n, ".json">>>>
        IN  /\ n >= 1
            /\ last.wrote = {ap, mp}
            /\ files[ap].complete
            /\ files[mp].complete
            /\ files[mp].data.index = n

C3_Witness ==
    /\ last.returned = "True"
    /\ last.subcategory # NoSub
    /\ last.index = 2

\* C8: no two save_article calls that returned True wrote the same file path.
C8_NoPathWrittenTwice == ~(last.returned = "True" /\ last.clobbered)

\* C9: the directories of a stored article are named by the normalized keys
\* of its category and subcategory, and the save has registered both titles
\* in the CategoryMapper.
C9_DirsAreNormalizedKeys ==
    last.returned = "True" =>
        /\ last.base[1] = normalize_category_name(last.category)
        /\ normalize_category_name(last.category) \in DOMAIN mappings
        /\ Truthy(last.subcategory) =>
              /\ last.base[3] = normalize_category_name(last.subcategory)
              /\ normalize_category_name(last.subcategory) \in DOMAIN mappings

\* C10: the directory is a function of the (category, subcategory) pair
\* alone: <category>/category without a subcategory,
\* <category>/sub-category/<subcategory> with one, the same <category> for
\* every subcategory of a category, the same directory on every call for the
\* pair, and the files of a call under its article and metadata directories.
C10_DirectoryOfPair ==
    /\ \A k \in Keys : Cardinality(dirsUsed[k]) <= 1
    /\ \A k \in Keys : \A d \in dirsUsed[k] :
          IF k[2] = NoSub
          THEN Len(d) = 2 /\ d[2] = <<"category">>
          ELSE Len(d) = 3 /\ d[2] = <<"sub-category">>
    /\ \A k1, k2 \in Keys : \A d1 \in dirsUsed[k1], d2 \in dirsUsed[k2] :
          /\ k1[1] = k2[1] => d1[1] = d2[1]
          /\ (k1[2] # NoSub /\ k1[2] = k2[2]) => d1[3] = d2[3]
    /\ last.called =>
          /\ last.base \in dirsUsed[LastKey]
          /\ \A p \in last.wrote :
                /\ SubSeq(p, 1, Len(last.base)) = last.base
                /\ Len(p) = Len(last.base) + 2
                /\ p[Len(last.base) + 1] \in {<<"article">>, <<"metadata">>}

C10_Witness ==
    \E k \in Keys :
        /\ k[2] # NoSub
        /\ indexed[k] >= 2
        /\ stored[k] >= 1
        /\ indexed[<<k[1], NoSub>>] >= 1

-----------------------------------------------------------------------------
(* Claims about the traversal, checked under CrawlSpec *)

ArticleLoop(id) == IF id[2] = 0 THEN "main_article" ELSE "sub_article"

\* C4: a save_article call that meets a failure (making the directories,
\* writing the body, writing the metadata) returns False and raises nothing;
\* the loop does not count the article and goes on to the next article of
\* the listing, or past the loop after the last one.
C4_FailedSaveIsSkipped ==
    (lastArt.saved /\ lastArt.fault # "none") =>
        /\ lastArt.returned = "False"
        /\ ~lastArt.propagated
        /\ ~lastArt.counted
        /\ IF lastArt.id[3] < lastArt.of
           THEN lastArt.next =
                  <<ArticleLoop(lastArt.id), lastArt.id[1], lastArt.id[2], lastArt.id[3] + 1>>
           ELSE lastArt.next[1] \in
                  (IF lastArt.id[2] = 0 THEN {"get_subcategories"}
                   ELSE {"sub_listing", "crawl_category", "finish"})

C4_Witness ==
    /\ lastArt.saved
    /\ lastArt.fault = "mkdir"
    /\ lastArt.id[3] = 1
    /\ pc = "main_article"
    /\ article_idx = 2
    /\ stats.articles = 0

\* C5: failures are isolated at every level: when the run has ended, every
\* article a listing returned has been processed, every subcategory a
\* breadcrumb listed has been crawled and every selected category has been
\* visited, whatever fetch raised on the way.
C5_FailureIsolation ==
    pc = "done" =>
        /\ listed \subseteq processed
        /\ 1..Len(categories) \subseteq visited

\* C6: the run exits with a non-zero code only because logging or the
\* storage root could not be set up; no fetch failure and no extraction miss
\* on a page does it.
C6_OnlySetupFailureExits ==
    pc = "exit_1" => exit_cause \in {"logging", "storage"}

-----------------------------------------------------------------------------
(* Claims about the fetcher, checked under FetchSpec *)

\* C7: a fetch whose every attempt fails raises after exactly MAX_RETRIES
\* attempts and MAX_RETRIES - 1 waits of RETRY_DELAY; a fetch that succeeds
\* on attempt k <= MAX_RETRIES returns the document after exactly k attempts.
C7_RetryAttempts ==
    lastFetch.status # "none" =>
        IF lastFetch.failures >= MAX_RETRIES
        THEN /\ lastFetch.status = "raised"
             /\ lastFetch.attempts = MAX_RETRIES
             /\ lastFetch.waits = MAX_RETRIES - 1
             /\ lastFetch.slept = (MAX_RETRIES - 1) * RETRY_DELAY
        ELSE /\ lastFetch.status = "returned"
             /\ lastFetch.result = "soup"
             /\ lastFetch.attempts = lastFetch.failures + 1
             /\ lastFetch.waits = lastFetch.failures
             /\ lastFetch.slept = lastFetch.failures * RETRY_DELAY

C7_Witness ==
    /\ lastFetch.status = "raised"
    /\ \E i \in 1..Len(fetchLog) : fetchLog[i] = [status |-> "returned", attempts |-> 2]

-----------------------------------------------------------------------------
(* Claims about the listing of a page, checked under ListingSpec *)

\* the article an address names: its file name, every modelled address being
\* one of the site's root
ArticleNamed(link) == SubSeq(link, Len(link) - 1, Len(link))

\* C11: the records get_articles_from_page returns are absolute addresses of
\* the site and no two of them name the same article, whether the page
\* wrote the hrefs as relative paths or as absolute addresses and whichever
\* strategy found the anchors.
C11_NoDuplicateUrl ==
    applied =>
        /\ \A i \in 1..Len(output) : StartsWithHttp(output[i].link)
        /\ \A i, j \in 1..Len(output) :
              ArticleNamed(output[i].link) = ArticleNamed(output[j].link) => i = j

C11_Witness ==
    /\ applied
    /\ Len(output) = 1
    /\ Len(input) = 3
    /\ input[1].via = "class" /\ input[1].href = <<"/", "a", ".htm">>
    /\ input[2].via = "class" /\ input[2].href = <<"https://baochinhphu.vn", "/", "a", ".htm">>
    /\ input[3].via = "heading" /\ input[3].text = <<" ">>
    /\ \A i \in 1..2 : input[i].text = <<"T">>

-----------------------------------------------------------------------------
(* Claims about the content of an article page, checked under ExtractSpec *)

\* the texts of the elements that are not blank
NonBlankTexts(paragraphs) ==
    SelectSeq([i \in 1..Len(paragraphs) |-> Strip(paragraphs[i].text)], Truthy)

\* C14: the author is looked for in the last element only: when its first
\* bold text is non-empty, shorter than 50 characters and free of the
\* non-name keywords, that text is the author and the element is left out
\* of the body; in every other case there is no author and the body is
\* made of all the elements.  '<b>Minh Anh</b>' is taken as the author,
\* '<b>Nguon: Bao</b>' stays in the body.
C14_AuthorFromLastElement ==
    (applied /\ input.container /\ input.paragraphs # << >>) =>
        LET ps == input.paragraphs
            last_p == ps[Len(ps)]
            named == /\ last_p.bold # << >>
                     /\ last_p.bold[1] # << >>
                     /\ Len(last_p.bold[1]) < 50
                     /\ \A keyword \in invalid_keywords :
                           ~Contains(Lower(last_p.bold[1]), keyword)
        IN  /\ IF named
               THEN /\ output.metadata.author = last_p.bold[1]
                    /\ output.content = NonBlankTexts(SubSeq(ps, 1, Len(ps) - 1))
               ELSE /\ output.metadata.author = << >>
                    /\ output.content = NonBlankTexts(ps)
            /\ last_p = Bold(MinhAnh) => output.metadata.author = MinhAnh
            /\ last_p = Bold(NguonBao) =>
                  /\ output.metadata.author = << >>
                  /\ output.content[Len(output.content)] = NguonBao
            /\ last_p.bold = <<Repeat("x", 50)>> => output.metadata.author = << >>

C14_Witness ==
    /\ applied
    /\ input.container
    /\ input.paragraphs = <<Bold(NguonBao), Bold(MinhAnh)>>
    /\ output.metadata.author = MinhAnh
    /\ output.content = <<NguonBao>>

-----------------------------------------------------------------------------
(* Claims about listings and article pages in the traversal, under CrawlSpec *)

\* C12: every record of a listing has a title and a link; a category page
\* with two article links and a link without a title gives two records, the
\* two articles are the only ones taken up, and when both are fetched with
\* content and stored, the category's main part has counted 2 articles and
\* the store holds exactly their two article/metadata pairs, under the two
\* indices the calls were given.
C12_UntitledLinkIsDropped ==
    /\ \A i \in 1..Len(lastListing.records) :
          Truthy(lastListing.records[i].title) /\ Truthy(lastListing.records[i].link)
    /\ (/\ pc \in {"main_article", "get_subcategories"}
        /\ lastListing.fetched
        /\ lastListing.page = TwoValidOneUntitled) =>
          LET key == <<categories[cat_idx], NoSub>>
              base == base_path(key[1], key[2])
              pairs == {article_filepath(base, last.index - 1),
                        metadata_filepath(base, last.index - 1),
                        article_filepath(base, last.index),
                        metadata_filepath(base, last.index)}
          IN  /\ Len(lastListing.records) = 2
              /\ Links(lastListing.records) =
                    {URL \o <<"/", "a", ".htm">>, URL \o <<"/", "b", ".htm">>}
              /\ {x \in listed : x[1] = cat_idx /\ x[3] > 0} =
                    {<<cat_idx, 0, 1>>, <<cat_idx, 0, 2>>}
              /\ {x \in processed : x[1] = cat_idx} \subseteq listed
              /\ (pc = "get_subcategories" /\ clean) =>
                    /\ stats.articles = 2
                    /\ indexed[key] = 2
                    /\ stored[key] = 2
                    /\ LastKey = key
                    /\ last.returned = "True"
                    /\ last.index >= 2
                    /\ Cardinality(pairs) = 4
                    /\ pairs \subseteq DOMAIN files
                    /\ \A f \in pairs : files[f].complete

C12_Witness ==
    /\ pc = "get_subcategories"
    /\ lastListing.fetched
    /\ lastListing.page = TwoValidOneUntitled
    /\ clean
    /\ stats.articles = 2
    /\ saves = 2

\* C13: an article page without a content container makes
\* get_article_content return no content and no metadata and raise nothing;
\* save_article is not called for the article, the article is not counted,
\* and the loop goes on to the next article or past its end.
C13_NoContainerIsSkipped ==
    (lastArt.fetched /\ ~lastArt.page.container) =>
        /\ lastArt.content = << >>
        /\ DOMAIN lastArt.metadata = {}
        /\ ~lastArt.saved
        /\ lastArt.returned = "nothing"
        /\ ~lastArt.counted
        /\ ~lastArt.propagated
        /\ lastArt.id[3] < lastArt.of =>
              lastArt.next =
                 <<ArticleLoop(lastArt.id), lastArt.id[1], lastArt.id[2], lastArt.id[3] + 1>>
        /\ lastArt.id[3] = lastArt.of =>
              lastArt.next[1] \in {"get_subcategories", "sub_listing", "crawl_category",
                                   "finish"}

C13_Witness ==
    /\ lastArt.fetched
    /\ ~lastArt.page.container
    /\ lastArt.id = <<1, 0, 1>>
    /\ pc = "main_article"
    /\ article_idx = 2
    /\ saves = 0
    /\ stats.articles = 0

-----------------------------------------------------------------------------
(* Claims about the mapper, checked under MapperSpec *)

ChinhTriKey == <<"c", "h", "i", "n", "h", "_", "t", "r", "i">>

\* C15: the key of an original is the same on every call, whatever the
\* table held when it was asked for: no entry for the key, an entry made
\* for the same original, or an entry made for another original; the key of
\* 'Chinh tri' (with its accents) is chinh_tri.
C15_KeyIsDeterministic ==
    /\ \A o \in Originals : \A g1, g2 \in given[o] : g1[2] = g2[2]
    /\ \A g \in given[ChinhTri] : g[2] = ChinhTriKey

C15_Witness ==
    \E o \in Originals :
        {g[1] : g \in given[o]} = {"absent", "same", "other"}

\* C17: once a key is in the table of a mapper its pair of names stays as
\* it was first recorded, whatever is called with another original of the
\* same key.
C17_FirstWriteWins ==
    \A k \in DOMAIN mappings : mappings[k] = firstPair[k]

\* C18: the first get_normalized_name for a key the table does not hold
\* records the original and its upper-case form under the key;
\* get_display_name gives the upper-case form of the recorded original, and
\* the key in upper case when the table does not hold the key.
C18_AutoRegister ==
    /\ (lastMap.op = "get_normalized_name" /\ lastMap.was_new) =>
          /\ lastMap.result \in DOMAIN mappings
          /\ mappings[lastMap.result] =
                [original_name |-> lastMap.arg, display_name |-> Upper(lastMap.arg)]
          /\ lastMap.arg = ChinhTri =>
                mappings[ChinhTriKey].display_name =
                    <<"C", "H", "I'", "N", "H", " ", "T", "R", "I.">>
    /\ lastMap.op = "get_display_name" =>
          IF lastMap.arg \in DOMAIN mappings
          THEN lastMap.result = Upper(mappings[lastMap.arg].original_name)
          ELSE lastMap.result = Upper(lastMap.arg)

C18_Witness ==
    /\ lastMap.op = "get_display_name"
    /\ lastMap.arg = ChinhTriKey
    /\ lastMap.result = <<"C", "H", "I'", "N", "H", " ", "T", "R", "I.">>
    /\ mappings[ChinhTriKey].original_name = ChinhTri
    /\ given[ChinhTri] = {<<"absent", ChinhTriKey>>}

-----------------------------------------------------------------------------
(* Claims about normalize_category_name, checked under NormSpec *)

\* C16: normalizing a normalized name changes nothing, for every name made
\* of letters, accented letters, digits, blanks, underscores and punctuation.
C16_NormalizeIsIdempotent ==
    applied => output.twice = output.once

C16_Witness ==
    /\ applied
    /\ input = <<"_", "/", "_">>
    /\ output.once = <<"_">>
    /\ output.twice = <<"_">>

-----------------------------------------------------------------------------
(* Claims about the store and the mapping file, checked under StoreSpec *)

\* C19: after every save_article call that returned True the mapping file
\* holds an entry for the normalized category of the article, and one for
\* its normalized subcategory when it has one.
C19_MappingPersistedPerSave ==
    last.returned = "True" =>
        /\ normalize_category_name(last.category) \in DOMAIN mapping_file
        /\ Truthy(last.subcategory) =>
              normalize_category_name(last.subcategory) \in DOMAIN mapping_file

\* the fields of the metadata contract
ContractFields ==
    {"index", "category", "subcategory", "category_normalized", "subcategory_normalized",
     "category_display", "subcategory_display", "title", "url", "date", "author",
     "source", "crawl_date"}

\* C20: every metadata record that save_article wrote whole has exactly the
\* fields of the contract, with no subcategory and no normalized
\* subcategory when the article is stored under the category itself.
C20_MetadataFields ==
    \A f \in DOMAIN files :
        (f[Len(f) - 1] = METADATA_DIR /\ files[f].complete) =>
            /\ DOMAIN files[f].data = ContractFields
            /\ f[2] = CATEGORY_DIR =>
                  /\ files[f].data.subcategory = NoSub
                  /\ files[f].data.subcategory_normalized = NoSub

-----------------------------------------------------------------------------
(* Claims about the breadcrumb of a category page, checked under BreadcrumbSpec *)

\* the addresses of the site's home
HomeUrls == {URL, URL \o <<"/">>}

\* the breadcrumb entries with a title whose absolute address is neither
\* the home nor the category, the first of each address, in page order
RECURSIVE ExpectedSubcategories(_, _)
ExpectedSubcategories(items, found) ==
    IF items = << >> THEN found
    ELSE LET title == Strip(Head(items).text)
             absolute == normalize_url(Head(items).href, URL)
         IN  IF /\ Truthy(title)
                /\ absolute \notin HomeUrls \cup {CategoryUrl}
                /\ absolute \notin Links(found)
             THEN ExpectedSubcategories(Tail(items),
                                        Append(found, [title |-> title, link |-> absolute]))
             ELSE ExpectedSubcategories(Tail(items), found)

\* C21: get_subcategories_from_category returns, in page order and once per
\* absolute address, exactly the breadcrumb entries with a title and an href
\* whose absolute address is neither the site's home nor the category's
\* own, whether the href is a path or an absolute address.
C21_SubcategoriesOfBreadcrumb ==
    (applied /\ input.breadcrumb = "ul") =>
        output = ExpectedSubcategories(input.items, << >>)

-----------------------------------------------------------------------------
(* Claims about the body of an article, checked under ExtractSpec *)

\* C25: the body is made of the texts of the remaining elements, in order,
\* and holds no paragraph of fewer than 20 characters.
C25_ShortParagraphsSkipped ==
    (applied /\ input.container) =>
        \A i \in 1..Len(output.content) : Len(output.content[i]) >= 20

-----------------------------------------------------------------------------
(* Claims about the files of the store, checked under StoreSpec *)

\* the file beside an article file that holds its metadata
MetadataBeside(f) ==
    SubSeq(f, 1, Len(f) - 2) \o <<METADATA_DIR, <<"metadata_", f[Len(f)][2], ".json">>>>

\* C28: after any sequence of save_article calls every article_<n>.txt on
\* disk has a metadata_<n>.json beside it that was written whole.
C28_ArticleHasMetadata ==
    \A f \in DOMAIN files :
        f[Len(f) - 1] = ARTICLE_DIR =>
            /\ MetadataBeside(f) \in DOMAIN files
            /\ files[MetadataBeside(f)].complete

-----------------------------------------------------------------------------
(* Claims about the summarizer, checked under SummSpec *)

\* C30: for n >= 1 sentences and num_sentences k >= 1, summarize returns
\* min(k, n) sentences: every sentence, at indices 0..n-1, when n <= k, and
\* otherwise k sentences none of which scores lower than a sentence left
\* out; the indices increase strictly, each summary sentence is the input
\* sentence at its index, and the sentence list is the one that was passed.
C30_SummaryOfTopSentences ==
    (applied /\ Len(input.sentences) >= 1) =>
        LET n == Len(input.sentences)
            m == IF input.k < n THEN input.k ELSE n
            chosen == {output.indices[i] : i \in 1..Len(output.indices)}
        IN  /\ Len(output.summary) = m
            /\ Len(output.indices) = m
            /\ chosen \subseteq 0..(n - 1)
            /\ \A i \in 1..(m - 1) : output.indices[i] < output.indices[i + 1]
            /\ \A i \in 1..m : output.summary[i] = input.sentences[output.indices[i] + 1]
            /\ n <= input.k => output.indices = [i \in 1..n |-> i - 1]
            /\ n > input.k =>
                  \A i \in chosen : \A j \in (0..(n - 1)) \ chosen :
                      input.scores[i + 1] >= input.scores[j + 1]

C30_Witness ==
    /\ applied
    /\ input.k = 2
    /\ input.sentences = <<"x", "y", "x">>
    /\ input.scores = <<2, 0, 1>>
    /\ output.indices = <<0, 2>>
    /\ output.summary = <<"x", "x">>

-----------------------------------------------------------------------------
(* Claims about a store opened again on the same directory, under RerunSpec *)

RECURSIVE SumOf(_, _)
SumOf(f, S) ==
    IF S = {} THEN 0
    ELSE LET k == CHOOSE x \in S : TRUE IN f[k] + SumOf(f, S \ {k})

\* C24: the counters are not seeded from disk: the first index a storage
\* draws for a key is 1, also when base_dir already holds article_1.txt and
\* metadata_1.json of that key from a storage before, and the save writes to
\* those very paths.
C24_CountersNotSeededFromDisk ==
    [][(/\ saves' = saves + 1
        /\ last'.fault # "mkdir"
        /\ get_counter_key(last'.category, last'.subcategory) \notin session.drawn)
       => /\ last'.index = 1
          /\ last'.wrote \subseteq
                {article_filepath(last'.base, 1), metadata_filepath(last'.base, 1)}
          /\ last'.wrote \subseteq DOMAIN files'
          /\ last'.clobbered = (last'.wrote \cap okWritten # {})]_vars

\* the second storage has overwritten a stored article of the first, and
\* get_stats counts fewer articles than were stored
C24_Witness ==
    /\ session.opened = 2
    /\ last.called
    /\ last.returned = "True"
    /\ last.index = 1
    /\ last.clobbered
    /\ get_counter_key(last.category, last.subcategory) \in session.drawn
    /\ get_stats_articles(files) < SumOf(stored, Keys)

-----------------------------------------------------------------------------
(* Claims about the counts of a run, checked under CrawlSpec *)

\* the subcategories of category c whose listing gave an article
ListedSubcategories(all, c) == {x[2] : x \in {y \in all : y[1] = c /\ y[2] > 0 /\ y[3] = 1}}

\* C22: when crawl_category returns, the subcategory count it returns (what
\* main adds to its total) is the number of the category's subcategories
\* whose listing was not empty, whatever was stored of them; a subcategory
\* with an empty listing is processed and not counted.
C22_SubcategoryCountIsListedOnes ==
    [][total_stats'.categories = total_stats.categories + 1
       => /\ total_stats'.subcategories - total_stats.subcategories
                = Cardinality(ListedSubcategories(listed', cat_idx))
          /\ \A x \in listed' : x[1] = cat_idx /\ x[2] > 0 /\ x[3] = 0
                => <<cat_idx, x[2], 0>> \in processed']_vars

\* a subcategory was counted though none of its articles was stored
C22_Witness ==
    /\ pc = "done"
    /\ total_stats.subcategories = 1
    /\ \E x \in listed : x[2] > 0 /\ x[3] = 1 /\ x \in processed
    /\ \A k \in Keys : Truthy(k[2]) => stored[k] = 0

\* C27: the 'articles' total printed at the end of a run is the number of
\* save_article calls that returned True during the run, also when a
\* category stopped with an exception after some of its articles were stored.
C27_ArticlesTotalIsSaves ==
    pc = "done" => total_stats.articles = SumOf(stored, Keys)

-----------------------------------------------------------------------------
(* Claims about the pauses of a run, checked under CrawlSpec *)

Slept(delay) == \E i \in 1..Len(pause) : pause[i] = delay

\* C23: a pause follows every unit of work: the fetch that begins a
\* category other than the first comes after a DELAY_BETWEEN_CATEGORIES
\* sleep, whether the category before completed or raised; the listing of a
\* subcategory other than the first comes after a
\* DELAY_BETWEEN_SUBCATEGORIES sleep; and what follows an article, stored or
\* not, comes after a DELAY_BETWEEN_REQUESTS sleep.
C23_SleepAfterEveryUnit ==
    /\ (pc = "crawl_category" /\ cat_idx > 1) => Slept(DELAY_BETWEEN_CATEGORIES)
    /\ (pc = "sub_listing" /\ sub_idx > 1) => Slept(DELAY_BETWEEN_SUBCATEGORIES)
    /\ (pc \in {"main_article", "sub_article"} /\ article_idx > 1)
          => Slept(DELAY_BETWEEN_REQUESTS)
    /\ (pc = "get_subcategories" /\ lastArt.id[1] = cat_idx)
          => Slept(DELAY_BETWEEN_REQUESTS)

-----------------------------------------------------------------------------
(* Claims about the order of a run, checked under CrawlSpec *)

InCategory == {"main_article", "get_subcategories", "sub_listing", "sub_article"}

\* the articles listed for category c, subcategory j (0: the category itself)
ArticlesOf(c, j) == {x \in ArticlesListed : x[1] = c /\ x[2] = j}

-----------------------------------------------------------------------------
(* Claims about the end of a run, checked under CrawlLive *)

RunEnded == pc \in {"done", "returned", "exit_1"}

\* C29: every run ends, by completing or by a fatal exit, and no fetch of it
\* makes more than MAX_RETRIES attempts.
C29_RunTerminates ==
    /\ <>RunEnded
    /\ [](lastFetch.attempts <= MAX_RETRIES)

\* a run that completed after a fetch used up its attempts
C29_Witness ==
    /\ pc = "done"
    /\ cat_idx = MaxCats
    /\ lastFetch.attempts = MAX_RETRIES
    /\ lastFetch.status = "raised"

====
